---- MODULE Spec2Model ----
(***************************************************************************)
(* Model of abstractdash.py: the period resolver get_date_range and the    *)
(* session bookkeeping done by the two fetch handlers of the Streamlit     *)
(* script ("Authenticate & Fetch Data" and "Update Query").                *)
(*                                                                         *)
(* One script run is one atomic step: Streamlit runs the script top to     *)
(* bottom on every widget interaction, single-threaded per session.        *)
(***************************************************************************)
EXTENDS Integers, Sequences, FiniteSets, TLC

VARIABLES
    session_state,      \* st.session_state: the seven fields of lines 117-123
    selected_period,    \* value of the "Select Period" selectbox (line 139)
    custom_start_date,  \* value of the "Start Date" input, None unless custom
    custom_end_date,    \* value of the "End Date" input, None unless custom
    messages,           \* what the last script run displayed or raised
    response,           \* what the record source answered in the last run
    period,             \* resolver harness: argument of get_date_range
    today,              \* resolver harness: value read by get_eastern_time_now
    result              \* resolver harness: value returned by get_date_range

vars == <<session_state, selected_period, custom_start_date, custom_end_date,
          messages, response, period, today, result>>

None == "None"

\* ---------------------------------------------------------------- bounds
\* Reference years are FirstRefYear .. FirstRefYear + YearSpan.
YearSpan == 1
\* Days 1 .. WeekRun of every month are reference dates (with the last day).
WeekRun == 7
\* The record source returns 0 .. MaxRows rows.
MaxRows == 2
\* The date inputs offer CustomDay(1) .. CustomDay(NumCustomDates).
NumCustomDates == 2

\* ------------------------------------------------------- calendar (datetime)
\* datetime._is_leap
IsLeap(y) == (y % 4 = 0) /\ ((y % 100 # 0) \/ (y % 400 = 0))

\* datetime._days_before_year: days before January 1st of year y
DaysBeforeYear(y) ==
    LET p == y - 1 IN p * 365 + (p \div 4) - (p \div 100) + (p \div 400)

\* datetime._days_in_month
DaysInMonth(y, m) ==
    IF m = 2 THEN (IF IsLeap(y) THEN 29 ELSE 28)
    ELSE IF m \in {4, 6, 9, 11} THEN 30 ELSE 31

\* datetime._days_before_month: days in year y before the first of month m
RECURSIVE DaysBeforeMonth(_, _)
DaysBeforeMonth(y, m) ==
    IF m <= 1 THEN 0 ELSE DaysBeforeMonth(y, m - 1) + DaysInMonth(y, m - 1)

\* datetime._ymd2ord: proleptic Gregorian ordinal, 0001-01-01 is day 1
Ymd2Ord(y, m, d) == DaysBeforeYear(y) + DaysBeforeMonth(y, m) + d

\* datetime._ord2ymd, the inverse of Ymd2Ord, computed as CPython computes it
Ord2Ymd[ord \in Int] ==
    LET n0   == ord - 1
        n400 == n0 \div 146097
        r400 == n0 % 146097
        n100 == r400 \div 36524
        r100 == r400 % 36524
        n4   == r100 \div 1461
        r4   == r100 % 1461
        n1   == r4 \div 365
        n    == r4 % 365
        y    == n400 * 400 + 1 + n100 * 100 + n4 * 4 + n1
    IN  IF n1 = 4 \/ n100 = 4
        THEN [year |-> y - 1, month |-> 12, day |-> 31]
        ELSE LET mGuess == (n + 50) \div 32
                 m      == IF DaysBeforeMonth(y, mGuess) > n
                           THEN mGuess - 1 ELSE mGuess
             IN  [year |-> y, month |-> m, day |-> n - DaysBeforeMonth(y, m) + 1]

\* date.weekday(): Monday is 0, Sunday is 6
Weekday(dt) == (Ymd2Ord(dt.year, dt.month, dt.day) + 6) % 7

\* datetime.date(y, m, d)
Date(y, m, d) == [year |-> y, month |-> m, day |-> d]

\* The check datetime(...) makes of its arguments: the ValueError it raises,
\* or None when the fields are a date
DatetimeError(y, m, d) ==
    IF m \notin 1..12 THEN "ValueError: month must be in 1..12"
    ELSE IF d \notin 1..DaysInMonth(y, m)
         THEN "ValueError: day is out of range for month"
         ELSE None

\* datetime(y, m, d, h, mi, s, us, tzinfo)
Datetime(y, m, d, h, mi, s, us, tz) ==
    [year |-> y, month |-> m, day |-> d, hour |-> h, minute |-> mi,
     second |-> s, microsecond |-> us, tzinfo |-> tz]

\* Values of type datetime (and None, see NoneDatetime)
DatetimeType ==
    [year : Int, month : Int, day : Int, hour : Int, minute : Int,
     second : Int, microsecond : Int, tzinfo : STRING]

\* The Python value None where a datetime is expected (period_start = None)
NoneDatetime == Datetime(0, 0, 0, 0, 0, 0, 0, None)

\* The Python value None where a date is expected (custom_start_date = None)
NoneDate == Date(0, 0, 0)

\* dt + timedelta(days=days, seconds=seconds): wall-clock arithmetic, tzinfo kept as it is
\* (pytz datetimes are not re-normalised by + and -)
PlusTimedelta[dt \in DatetimeType, days \in Int, seconds \in Int] ==
    LET sod  == dt.hour * 3600 + dt.minute * 60 + dt.second + seconds
        ord  == Ymd2Ord(dt.year, dt.month, dt.day) + days + (sod \div 86400)
        s    == sod % 86400
        ymd  == Ord2Ymd[ord]
    IN  [year |-> ymd.year, month |-> ymd.month, day |-> ymd.day,
         hour |-> s \div 3600, minute |-> (s % 3600) \div 60, second |-> s % 60,
         microsecond |-> dt.microsecond, tzinfo |-> dt.tzinfo]

\* dt.replace(hour=0, minute=0, second=0, microsecond=0)
ReplaceMidnight[dt \in DatetimeType] ==
    [dt EXCEPT !.hour = 0, !.minute = 0, !.second = 0, !.microsecond = 0]

\* dt.replace(day=1, hour=0, minute=0, second=0, microsecond=0)
ReplaceFirstOfMonth[dt \in DatetimeType] == [ReplaceMidnight[dt] EXCEPT !.day = 1]

\* Order of two dates (date.__le__)
DateLE(a, b) == Ymd2Ord(a.year, a.month, a.day) <= Ymd2Ord(b.year, b.month, b.day)

\* Order of two datetimes that carry the same tzinfo object (datetime.__le__
\* compares the wall-clock fields in that case)
DatetimeLT(a, b) ==
    LET oa == Ymd2Ord(a.year, a.month, a.day)
        ob == Ymd2Ord(b.year, b.month, b.day)
        sa == a.hour * 3600 + a.minute * 60 + a.second
        sb == b.hour * 3600 + b.minute * 60 + b.second
    IN  \/ oa < ob
        \/ oa = ob /\ sa < sb
        \/ oa = ob /\ sa = sb /\ a.microsecond < b.microsecond

DatetimeLE(a, b) == a = b \/ DatetimeLT(a, b)

\* datetime.isoformat(): the microsecond part is printed only when non-zero,
\* the UTC offset of the tzinfo is appended
isoformat[dt \in DatetimeType] ==
    <<dt.year, dt.month, dt.day, "T", dt.hour, dt.minute, dt.second>>
    \o (IF dt.microsecond = 0 THEN <<>> ELSE <<".", dt.microsecond>>)
    \o (IF dt.tzinfo = "EDT" THEN <<"-04:00">> ELSE <<"-05:00">>)

\* ------------------------------------------------------------ the clock
FirstRefYear == 2024

\* First Sunday of month m of year y, as a day of the month
FirstSunday(y, m) == 1 + ((6 - Weekday(Date(y, m, 1))) % 7)

\* tzinfo pytz attaches in US/Eastern: daylight time from the second Sunday
\* of March 02:00 to the first Sunday of November 02:00
UsEasternTzinfo(y, m, d, h) ==
    LET dstStart == FirstSunday(y, 3) + 7
        dstEnd   == FirstSunday(y, 11)
        inDst    == \/ m \in 4..10
                    \/ m = 3  /\ (d > dstStart \/ (d = dstStart /\ h >= 2))
                    \/ m = 11 /\ (d < dstEnd \/ (d = dstEnd /\ h < 2))
    IN  IF inDst THEN "EDT" ELSE "EST"

\* Times of day the clock is read at: <<hour, minute, second, microsecond>>
RefTimes == { <<0, 0, 0, 0>>, <<12, 30, 15, 500000>>,
              <<23, 59, 59, 0>>, <<23, 59, 59, 999999>> }

RefYears == FirstRefYear .. (FirstRefYear + YearSpan)

RefDays(y, m) == (1..WeekRun) \cup {DaysInMonth(y, m)}

\* get_eastern_time_now(): the instants the clock can show
EasternNow ==
    { Datetime(y, m, d, t[1], t[2], t[3], t[4], UsEasternTzinfo(y, m, d, t[1])) :
        <<y, m, d, t>> \in { q \in RefYears \X (1..12) \X (1..31) \X RefTimes :
                                q[3] \in RefDays(q[1], q[2]) } }

\* ------------------------------------------------------------ the resolver
\* The argument of get_date_range: a string tag or a tuple of two dates
Str(s) == [type |-> "str", str |-> s, tuple |-> <<>>]
Tuple(a, b) == [type |-> "tuple", str |-> "", tuple |-> <<a, b>>]

\* What a call yields: the exception raised, or the returned tuple
Raise(msg) == [raised |-> msg, ret |-> <<>>]
Return[start_of_period \in DatetimeType, end_of_period \in DatetimeType] ==
    [raised |-> None,
     ret |-> <<isoformat[start_of_period], isoformat[end_of_period],
               start_of_period, end_of_period>>]

\* QuarterEnd without the branch for the fourth quarter: the first month of
\* the next quarter is computed for every quarter
QuarterEndNoLastQuarterCase(now, quarter) ==
    IF DatetimeError(now.year, 3 * quarter + 1, 1) # None
    THEN Raise(DatetimeError(now.year, 3 * quarter + 1, 1))
    ELSE Return[Datetime(now.year, 3 * quarter - 2, 1, 0, 0, 0, 0, now.tzinfo),
                PlusTimedelta[Datetime(now.year, 3 * quarter + 1, 1,
                                       0, 0, 0, 0, now.tzinfo), 0, -1]]

\* end_of_period of the "Quarter" branch
QuarterEnd(now, quarter) ==
    IF quarter < 4
    THEN IF DatetimeError(now.year, 3 * quarter + 1, 1) # None
         THEN Raise(DatetimeError(now.year, 3 * quarter + 1, 1))
         ELSE Return[Datetime(now.year, 3 * quarter - 2, 1, 0, 0, 0, 0, now.tzinfo),
                     PlusTimedelta[Datetime(now.year, 3 * quarter + 1, 1,
                                            0, 0, 0, 0, now.tzinfo), 0, -1]]
    ELSE Return[Datetime(now.year, 3 * quarter - 2, 1, 0, 0, 0, 0, now.tzinfo),
                Datetime(now.year, 12, 31, 23, 59, 59, 0, now.tzinfo)]

\* WeekRange counting the days since Sunday (isoweekday) instead of Monday
WeekRangeFromSunday(now) ==
    LET start_of_period ==
            ReplaceMidnight[PlusTimedelta[now, -((Weekday(now) + 1) % 7), 0]]
    IN  Return[start_of_period,
               PlusTimedelta[start_of_period, 6, 23 * 3600 + 59 * 60 + 59]]

\* The "Week" branch
WeekRange(now) ==
    LET start_of_period == ReplaceMidnight[PlusTimedelta[now, -Weekday(now), 0]]
    IN  Return[start_of_period,
               PlusTimedelta[start_of_period, 6, 23 * 3600 + 59 * 60 + 59]]

\* The "Month" branch
MonthRange(now) ==
    LET start_of_period == ReplaceFirstOfMonth[now]
        next_month == ReplaceFirstOfMonth[PlusTimedelta[start_of_period, 31, 0]]
    IN  Return[start_of_period, PlusTimedelta[next_month, 0, -1]]

\* The "7", "30", "90" and "1095" branches
LastDaysRange(now, days) == Return[PlusTimedelta[now, -days, 0], now]

\* The tuple branch: datetime.combine with datetime.min.time() and
\* datetime.max.time(), tzinfo replaced by today's
CustomRange(now, start_date, end_date) ==
    Return[Datetime(start_date.year, start_date.month, start_date.day,
                    0, 0, 0, 0, now.tzinfo),
           Datetime(end_date.year, end_date.month, end_date.day,
                    23, 59, 59, 999999, now.tzinfo)]

\* get_date_range(period), with the clock value it reads as a second argument
get_date_range(p, now) ==
    IF p.type = "str" /\ p.str = "Week" THEN WeekRange(now)
    ELSE IF p.type = "str" /\ p.str = "Month" THEN MonthRange(now)
    ELSE IF p.type = "str" /\ p.str = "Quarter"
         THEN QuarterEnd(now, ((now.month - 1) \div 3) + 1)
    ELSE IF p.type = "str" /\ p.str = "7" THEN LastDaysRange(now, 7)
    ELSE IF p.type = "str" /\ p.str = "30" THEN LastDaysRange(now, 30)
    ELSE IF p.type = "str" /\ p.str = "90" THEN LastDaysRange(now, 90)
    ELSE IF p.type = "str" /\ p.str = "1095" THEN LastDaysRange(now, 1095)
    ELSE IF p.type = "tuple" /\ Len(p.tuple) = 2
         THEN CustomRange(now, p.tuple[1], p.tuple[2])
         ELSE Raise("ValueError: Invalid period selected")

\* ------------------------------------------------------- the record source
\* One row of Abstrakt_Summary__c as the query returns it
Row(i) == [Id |-> i,
           Call_Sentiment__c |-> IF i % 2 = 1 THEN "Positive" ELSE "Negative"]

\* query_results['records'] for a query that returns n rows, in source order
Records(n) == [i \in 1..n |-> Row(i)]

\* What the Salesforce side does with one attempt: the login fails, the query
\* fails, or the query returns 0..MaxRows rows
SourceOutcomes ==
    {[kind |-> "connect_error", n |-> 0], [kind |-> "query_error", n |-> 0]}
    \cup {[kind |-> "records", n |-> k] : k \in 0..MaxRows}

\* The run did not query the record source
NoResponse == [kind |-> "none", n |-> 0]

\* The text of soql_query for the two boundary strings
SoqlQuery(start_date, end_date) ==
    <<"SELECT Id, Call_Sentiment__c, CreatedDate FROM Abstrakt_Summary__c WHERE CreatedDate >=",
      start_date, "AND CreatedDate <=", end_date,
      "AND Call_Sentiment__c IN ('Positive', 'Negative', 'Neutral', 'N/A')">>

\* The Python value None where a query text is expected
NoneQuery == <<>>

\* connect_to_salesforce_and_run_query returning one row and the query text
\* from its except branch when the query fails
connect_returning_rows_on_error(start_date, end_date, outcome) ==
    IF outcome.kind = "connect_error"
    THEN [df |-> <<>>, query |-> NoneQuery,
          shown |-> {"Error while querying Salesforce"}]
    ELSE IF outcome.kind = "query_error"
    THEN [df |-> Records(1), query |-> SoqlQuery(start_date, end_date),
          shown |-> {"Salesforce connection successful!",
                     "Error while querying Salesforce"}]
    ELSE [df |-> Records(outcome.n), query |-> SoqlQuery(start_date, end_date),
          shown |-> {"Salesforce connection successful!"}]

\* connect_to_salesforce_and_run_query(start_date, end_date): the returned
\* pair (df, query) and what it displayed
connect_to_salesforce_and_run_query(start_date, end_date, outcome) ==
    IF outcome.kind = "connect_error"
    THEN [df |-> <<>>, query |-> NoneQuery,
          shown |-> {"Error while querying Salesforce"}]
    ELSE IF outcome.kind = "query_error"
    THEN [df |-> <<>>, query |-> NoneQuery,
          shown |-> {"Salesforce connection successful!",
                     "Error while querying Salesforce"}]
    ELSE [df |-> Records(outcome.n), query |-> SoqlQuery(start_date, end_date),
          shown |-> {"Salesforce connection successful!"}]

\* ------------------------------------------------------------ the session
\* Keys of date_filter_options
date_filter_options ==
    {"Week", "Month", "Quarter", "7", "30", "90", "1095", "custom"}

\* The dates the two date inputs can be set to
CustomDay(i) == Ord2Ymd[Ymd2Ord(2024, 2, 27) + 2 * i]
CustomDates == {CustomDay(i) : i \in 1..NumCustomDates}

\* Instants at which the fetch handlers read the clock: the last day of
\* February and of December of the first and of the last reference year, at
\* the first and at the last whole second of the day
FetchNow ==
    { Datetime(y, m, DaysInMonth(y, m), t[1], t[2], t[3], t[4],
               UsEasternTzinfo(y, m, DaysInMonth(y, m), t[1])) :
        y \in {FirstRefYear, FirstRefYear + YearSpan}, m \in {2, 12}, t \in {q \in RefTimes : q[1] # 12 /\ q[4] = 0} }

\* Session state initialisation (first run of the script)
InitialSessionState ==
    [authenticated |-> FALSE, df |-> <<>>, query |-> NoneQuery,
     total_count |-> 0, selected_period |-> "Week",
     period_start |-> NoneDatetime, period_end |-> NoneDatetime]

\* ValidCustomRange without the comparison of the two dates
ValidCustomRangeUnordered(start_date, end_date) ==
    start_date # NoneDate /\ end_date # NoneDate

\* The test both handlers make of the custom dates before using them
ValidCustomRange(start_date, end_date) ==
    start_date # NoneDate /\ end_date # NoneDate /\ DateLE(start_date, end_date)

\* Lines 156-157, run on every pass of the script
SidebarDateCheck(sel, start_date, end_date) ==
    IF sel = "custom" /\ ~DateLE(start_date, end_date)
    THEN {"Start date must be before end date"} ELSE {}

\* The period the handlers resolve: the selector, the custom tuple, or the
\* fallback tag when the custom dates are rejected
ResolveSelection(sel, start_date, end_date, fallback, now) ==
    IF sel = "custom"
    THEN IF ValidCustomRange(start_date, end_date)
         THEN [shown |-> {},
               range |-> get_date_range(Tuple(start_date, end_date), now)]
         ELSE [shown |-> {"Invalid date range"},
               range |-> get_date_range(Str(fallback), now)]
    ELSE [shown |-> {}, range |-> get_date_range(Str(sel), now)]

\* NotEmpty testing for a data frame object instead of for rows
NotEmptyAlways(df) == Len(df) >= 0

\* "if not df.empty" of both handlers
NotEmpty(df) == Len(df) > 0

\* The assignments of the "Authenticate & Fetch Data" handler
AuthenticateStore(ss, df, query, sel, period_start, period_end) ==
    [ss EXCEPT !.authenticated = TRUE, !.df = df, !.query = query,
               !.total_count = Len(df), !.selected_period = sel,
               !.period_start = period_start, !.period_end = period_end]

\* UpdateStore without the two period assignments
UpdateStoreKeepingPeriod(ss, df, query, sel, period_start, period_end) ==
    [ss EXCEPT !.df = df, !.query = query,
               !.total_count = Len(df), !.selected_period = sel]

\* The assignments of the "Update Query" handler
UpdateStore(ss, df, query, sel, period_start, period_end) ==
    [ss EXCEPT !.df = df, !.query = query,
               !.total_count = Len(df), !.selected_period = sel,
               !.period_start = period_start, !.period_end = period_end]

\* UpdateOffered without the test for the custom selector
UpdateOfferedOnChangeOnly(ss, sel) == sel # ss.selected_period

\* The condition under which the "Update Query" button is drawn (line 185)
UpdateOffered(ss, sel) == sel # ss.selected_period \/ sel = "custom"

\* Python state after the first run of the script
Init ==
    /\ session_state = InitialSessionState
    /\ selected_period = "Week"
    /\ custom_start_date = NoneDate
    /\ custom_end_date = NoneDate
    /\ messages = {}
    /\ response = NoResponse
    /\ period = Str("Week")
    /\ today = NoneDatetime
    /\ result = Raise("not called")

\* The user changes the selectbox or the date inputs: the script reruns with
\* no button pressed
SelectPeriod ==
    \E sel \in date_filter_options, d1, d2 \in CustomDates :
        /\ selected_period' = sel
        /\ custom_start_date' = IF sel = "custom" THEN d1 ELSE NoneDate
        /\ custom_end_date' = IF sel = "custom" THEN d2 ELSE NoneDate
        /\ <<selected_period', custom_start_date', custom_end_date'>>
             # <<selected_period, custom_start_date, custom_end_date>>
        /\ messages' = SidebarDateCheck(sel, custom_start_date', custom_end_date')
             \cup (IF session_state.authenticated
                   THEN {"Already authenticated. You can view and interact with the data."}
                   ELSE {})
        /\ response' = NoResponse
        /\ UNCHANGED <<session_state, period, today, result>>

\* The user presses "Authenticate & Fetch Data"
AuthenticateAndFetch ==
    /\ ~session_state.authenticated
    /\ \E now \in FetchNow :
       \E sel \in {ResolveSelection(selected_period, custom_start_date,
                                    custom_end_date, "90", now)} :
       \E outcome \in SourceOutcomes :
         LET pre == SidebarDateCheck(selected_period, custom_start_date,
                                     custom_end_date) \cup sel.shown
             got == connect_to_salesforce_and_run_query(
                        sel.range.ret[1], sel.range.ret[2], outcome)
         IN  IF sel.range.raised # None
             THEN /\ messages' = pre \cup {sel.range.raised}
                  /\ response' = NoResponse
                  /\ UNCHANGED session_state
             ELSE IF NotEmpty(got.df)
             THEN /\ session_state' =
                       AuthenticateStore(session_state, got.df, got.query,
                           selected_period, sel.range.ret[3], sel.range.ret[4])
                  /\ messages' = pre \cup got.shown
                       \cup {"Authentication successful. Data fetched."}
                  /\ response' = outcome
             ELSE /\ messages' = pre \cup got.shown \cup {"No data found."}
                  /\ response' = outcome
                  /\ UNCHANGED session_state
    /\ UNCHANGED <<selected_period, custom_start_date, custom_end_date,
                   period, today, result>>

\* The user presses "Update Query"
UpdateQuery ==
    /\ session_state.authenticated
    /\ UpdateOffered(session_state, selected_period)
    /\ \E now \in FetchNow :
       \E sel \in {ResolveSelection(selected_period, custom_start_date,
                                    custom_end_date,
                                    session_state.selected_period, now)} :
       \E outcome \in SourceOutcomes :
         LET pre == {"Already authenticated. You can view and interact with the data."}
                    \cup SidebarDateCheck(selected_period, custom_start_date,
                                          custom_end_date) \cup sel.shown
             got == connect_to_salesforce_and_run_query(
                        sel.range.ret[1], sel.range.ret[2], outcome)
         IN  IF sel.range.raised # None
             THEN /\ messages' = pre \cup {sel.range.raised}
                  /\ response' = NoResponse
                  /\ UNCHANGED session_state
             ELSE IF NotEmpty(got.df)
             THEN /\ session_state' =
                       UpdateStore(session_state, got.df, got.query,
                           selected_period, sel.range.ret[3], sel.range.ret[4])
                  /\ messages' = pre \cup got.shown
                  /\ response' = outcome
             ELSE /\ messages' = pre \cup got.shown \cup {"No data found."}
                  /\ response' = outcome
                  /\ UNCHANGED session_state
    /\ UNCHANGED <<selected_period, custom_start_date, custom_end_date,
                   period, today, result>>

Next == SelectPeriod \/ AuthenticateAndFetch \/ UpdateQuery

Spec == Init /\ [][Next]_vars

\* ----------------------------------------------- the resolver on its own
\* Arguments the handlers can pass to get_date_range
PeriodArguments ==
    {Str(k) : k \in date_filter_options}
    \cup {Tuple(d[1], d[2]) : d \in {q \in CustomDates \X CustomDates : DateLE(q[1], q[2])}}

InitResolver ==
    /\ session_state = InitialSessionState
    /\ selected_period = "Week"
    /\ custom_start_date = NoneDate
    /\ custom_end_date = NoneDate
    /\ messages = {}
    /\ response = NoResponse
    /\ period \in PeriodArguments
    /\ today \in EasternNow
    /\ result = Raise("not called")

\* One call get_date_range(period) with the clock showing today
CallGetDateRange ==
    /\ result.raised = "not called"
    /\ result' = get_date_range(period, today)
    /\ UNCHANGED <<session_state, selected_period, custom_start_date,
                   custom_end_date, messages, response, period, today>>

NextResolver == CallGetDateRange

SpecResolver == InitResolver /\ [][NextResolver]_vars

\* ------------------------------------------------------------ properties
AlreadyAuthenticated ==
    "Already authenticated. You can view and interact with the data."

\* The fields the session keeps of one fetch
FetchFields(ss) == <<ss.df, ss.selected_period, ss.period_start, ss.period_end>>

\* C1: every step either leaves the stored records, selector and resolved
\* period all as they were, or replaces them by the values of one fetch: a
\* non-empty record set, the requested selector, and the period whose
\* boundary strings are in the stored query text.
C1_UpdatedTogether ==
    [][\/ FetchFields(session_state') = FetchFields(session_state)
       \/ /\ Len(session_state'.df) > 0
          /\ session_state'.total_count = Len(session_state'.df)
          /\ session_state'.selected_period = selected_period
          /\ session_state'.period_start # NoneDatetime
          /\ session_state'.period_end # NoneDatetime
          /\ session_state'.query =
                SoqlQuery(isoformat[session_state'.period_start],
                          isoformat[session_state'.period_end])]_vars

\* An "Update Query" run has just replaced the records of an earlier fetch
C1_Witness ==
    /\ AlreadyAuthenticated \in messages
    /\ response.kind = "records" /\ response.n = 2
    /\ session_state.selected_period = "Month"
    /\ Len(session_state.df) = 2

\* C2 (as claimed): a run with the custom selector and a start date after the
\* end date leaves the whole session state as it was.
C2_InvalidRangeLeavesState ==
    [][(selected_period = "custom" /\ ~DateLE(custom_start_date, custom_end_date))
         => session_state' = session_state]_vars

\* C3: a fetch action can be taken exactly when the session is not
\* authenticated, or the requested selector differs from the stored one, or
\* the requested selector is the custom one.
C3_FetchOffered ==
    (ENABLED (AuthenticateAndFetch \/ UpdateQuery))
        <=> \/ ~session_state.authenticated
            \/ selected_period # session_state.selected_period
            \/ selected_period = "custom"

\* Authenticated, and the requested selector is the stored, non-custom one
C3_Witness ==
    /\ session_state.authenticated
    /\ selected_period = session_state.selected_period
    /\ selected_period = "Quarter"

\* C4: a run in which the record source answers with zero rows leaves every
\* field of the session state as it was (so it does not authenticate, and
\* earlier records stay).
C4_EmptyResultLeavesState ==
    [][(response'.kind = "records" /\ response'.n = 0)
         => session_state' = session_state]_vars

\* Zero rows came back while records of an earlier fetch were held
C4_Witness ==
    /\ response.kind = "records" /\ response.n = 0
    /\ session_state.authenticated
    /\ Len(session_state.df) = 2
    /\ "No data found." \in messages

\* C5: a run in which the record source fails leaves the session state as it
\* was and shows the error.
C5_SourceErrorLeavesState ==
    [][(response'.kind \in {"connect_error", "query_error"})
         => /\ session_state' = session_state
            /\ "Error while querying Salesforce" \in messages']_vars

\* The query failed after the login succeeded, in an authenticated session
C5_Witness ==
    /\ response.kind = "query_error"
    /\ session_state.authenticated
    /\ "Error while querying Salesforce" \in messages

\* C6 (as claimed): no run raises "Invalid period selected".
C6_UnsupportedPeriodUnreachable ==
    "ValueError: Invalid period selected" \notin messages

\* C7: whenever the period boundaries are set, the stored start is not after
\* the stored end.
C7_StartNotAfterEnd ==
    (session_state.period_start # NoneDatetime
        /\ session_state.period_end # NoneDatetime)
      => DatetimeLE(session_state.period_start, session_state.period_end)

\* A custom range of two different dates has been fetched and stored
C7_Witness ==
    /\ session_state.selected_period = "custom"
    /\ session_state.period_start # NoneDatetime
    /\ session_state.period_start.day # session_state.period_end.day
    /\ "Invalid date range" \notin messages
    /\ response.kind = "records" /\ response.n > 0

\* The week get_date_range returned is Monday 00:00:00 to the Sunday six days
\* later 23:59:59, and the clock's date is one of its seven days
WeekOfToday(start_of_period, end_of_period) ==
    /\ Weekday(start_of_period) = 0
    /\ <<start_of_period.hour, start_of_period.minute, start_of_period.second,
         start_of_period.microsecond>> = <<0, 0, 0, 0>>
    /\ Weekday(end_of_period) = 6
    /\ <<end_of_period.hour, end_of_period.minute, end_of_period.second,
         end_of_period.microsecond>> = <<23, 59, 59, 0>>
    /\ Ymd2Ord(end_of_period.year, end_of_period.month, end_of_period.day)
         = Ymd2Ord(start_of_period.year, start_of_period.month,
                   start_of_period.day) + 6
    /\ DatetimeLE(start_of_period, today)

\* C8 (as claimed): the Week range is Monday 00:00:00 to Sunday 23:59:59 of
\* the week of the reference instant, and the reference instant lies within
\* it.
C8_WeekContainsToday ==
    (period = Str("Week") /\ result.raised = None)
      => /\ WeekOfToday(result.ret[3], result.ret[4])
         /\ DatetimeLE(today, result.ret[4])

\* C8 (amended): the Week range is Monday 00:00:00 to Sunday 23:59:59 of the
\* week of the reference instant, and the reference instant is not before the
\* start and is less than one second after the end.
C8_WeekOfToday ==
    (period = Str("Week") /\ result.raised = None)
      => /\ WeekOfToday(result.ret[3], result.ret[4])
         /\ DatetimeLT(today, PlusTimedelta[result.ret[4], 0, 1])

\* The Week range was resolved in the last fraction of a second of a Sunday
C8_Witness ==
    /\ period = Str("Week") /\ result.raised = None
    /\ Weekday(today) = 6
    /\ <<today.hour, today.minute, today.second>> = <<23, 59, 59>>
    /\ today.microsecond > 0

\* C9: for a reference date in October, November or December of year Y the
\* Quarter range is returned (no error), from October 1 00:00:00 of Y to
\* December 31 23:59:59 of Y.
C9_LastQuarter ==
    (period = Str("Quarter") /\ result.raised # "not called"
        /\ today.month \in 10..12)
      => /\ result.raised = None
         /\ result.ret[3] = Datetime(today.year, 10, 1, 0, 0, 0, 0, today.tzinfo)
         /\ result.ret[4] = Datetime(today.year, 12, 31, 23, 59, 59, 0, today.tzinfo)

\* The Quarter range was resolved on a December 31
C9_Witness ==
    /\ period = Str("Quarter") /\ result.raised = None
    /\ today.month = 12 /\ today.day = 31

\* C10 (as claimed): in an authenticated session the stored period and query
\* are those get_date_range gives, at some reading of the clock, for the
\* stored selector (for the custom selector: for some valid pair of dates).
C10_PeriodOfStoredSelector ==
    session_state.authenticated =>
        \E now \in FetchNow :
        \E p \in IF session_state.selected_period = "custom"
                 THEN {a \in PeriodArguments : a.type = "tuple"}
                 ELSE {Str(session_state.selected_period)} :
        \E r \in {get_date_range(p, now)} :
            /\ r.raised = None
            /\ session_state.period_start = r.ret[3]
            /\ session_state.period_end = r.ret[4]
            /\ session_state.query = SoqlQuery(r.ret[1], r.ret[2])

====
